---- MODULE Spec2Model ----
(***************************************************************************)
(* The ilo shader cache: ilo_shader_cache (two lists of shader states),    *)
(* ilo_shader_state (a recency list of compiled kernels with a size        *)
(* budget) and the kernel upload pass.                                     *)
(*                                                                         *)
(* Pointers to struct ilo_shader are addresses of a small heap, so that a  *)
(* freed kernel leaves a dangling address behind and a later allocation    *)
(* may hand the same address out again.  Pointers to ilo_shader_state are  *)
(* the program numbers.  Mesa's list_add() inserts right after the list    *)
(* head, so every list is a sequence written head first.                   *)
(***************************************************************************)
EXTENDS Integers, Sequences, FiniteSets

\* ------------------------------------------------------------------ bounds
\* the programs alive at a time, the kernels alive at a time (the allocator
\* returns NULL beyond that), and the calls made in a run
NumProgs == 2
NumAddrs == 3
MaxOps == 5

Progs == 1..NumProgs
Addrs == 1..NumAddrs

\* ------------------------------------------------------- program constants
NULL == 0
KernelAlign == 64
PrefetchPad == 128
GcLimit == 4096

PIPE_SHADER_VERTEX == "VS"
PIPE_SHADER_FRAGMENT == "FS"
PIPE_SHADER_GEOMETRY == "GS"
PIPE_SHADER_COMPUTE == "CS"
ShaderTypes ==
  {PIPE_SHADER_VERTEX, PIPE_SHADER_GEOMETRY, PIPE_SHADER_FRAGMENT, PIPE_SHADER_COMPUTE}

\* the ILO_DIRTY_x bits; a mask is the set of its bits, & is intersection
ILO_DIRTY_VERTEX_SAMPLER_VIEWS == "VERTEX_SAMPLER_VIEWS"
ILO_DIRTY_GEOMETRY_SAMPLER_VIEWS == "GEOMETRY_SAMPLER_VIEWS"
ILO_DIRTY_FRAGMENT_SAMPLER_VIEWS == "FRAGMENT_SAMPLER_VIEWS"
ILO_DIRTY_RASTERIZER == "RASTERIZER"
ILO_DIRTY_FRAMEBUFFER == "FRAMEBUFFER"
ILO_DIRTY_VS == "VS"
ILO_DIRTY_BLEND == "BLEND"
ILO_DIRTY_VERTEX_SAMPLERS == "VERTEX_SAMPLERS"
ILO_DIRTY_GEOMETRY_SAMPLERS == "GEOMETRY_SAMPLERS"
ILO_DIRTY_FRAGMENT_SAMPLERS == "FRAGMENT_SAMPLERS"

\* the dirty masks callers pass to ilo_shader_select_kernel
DirtyMasks ==
  { {ILO_DIRTY_BLEND}, {ILO_DIRTY_FRAMEBUFFER},
    {ILO_DIRTY_RASTERIZER, ILO_DIRTY_BLEND} }

\* ilo->view[type].states[0] and ilo->sampler[type].cso[0] when nothing is
\* bound there
NoView == "none"
NoSampler == <<>>

\* the part of struct ilo_context that ilo_shader_variant_init reads; view is
\* the swizzle of the sampler view in slot 0 of the stage (or NoView) and
\* sampler the bits saturate_s, saturate_t, saturate_r of the sampler in
\* slot 0 (or NoSampler)
Context(discard, clip) ==
  [ rasterizer_discard |-> discard,
    clip_plane_enable  |-> clip,
    flatshade          |-> discard,
    fb_height          |-> 1,
    nr_cbufs           |-> 1 + clip,
    vs_out_count       |-> clip,
    view_count         |-> 1,
    view               |-> "RGBA",
    sampler            |-> <<0, 0, 0>> ]

Contexts == {Context(d, c) : d \in BOOLEAN, c \in {0, 1}}

\* the start offsets callers pass to ilo_shader_cache_upload
StartOffsets == {0, 100}

\* which intel_bo_pwrite call of a pass fails: none, the first, the second
FailPoints == {0, 1, 2}

\* the stages the callers create each program for
TypesOf(p) ==
  IF p = 1 THEN {PIPE_SHADER_VERTEX, PIPE_SHADER_FRAGMENT}
           ELSE {PIPE_SHADER_GEOMETRY, PIPE_SHADER_COMPUTE}

\* ---------------------------------------------------------------- helpers
align(value, alignment) ==
  ((value + alignment - 1) \div alignment) * alignment

RECURSIVE util_last_bit(_)
util_last_bit(u) == IF u = 0 THEN 0 ELSE 1 + util_last_bit(u \div 2)

RemoveFrom(s, x) == SelectSeq(s, LAMBDA y : y /= x)

Members(s) == {s[i] : i \in 1..Len(s)}

Count(s, x) == Cardinality({i \in 1..Len(s) : s[i] = x})

\* ------------------------------------------------------------------ state
VARIABLES
  state,   \* program -> struct ilo_shader_state (NoState: not allocated)
  heap,    \* address -> struct ilo_shader (NoShader: free memory)
  shc,     \* struct ilo_shader_cache: the lists "shaders" and "changed"
  fault,   \* "none", or the fault that ended the process
  ops,     \* the number of calls made so far
  last     \* what the most recent call was, got and returned

vars == <<state, heap, shc, fault, ops, last>>

\* the values of shader->cache: the one cache, or a null pointer
SHC == "shc"
NoCache == "null"

\* struct ilo_shader_variant after memset(variant, 0, sizeof(*variant))
ZeroVariant ==
  [ rasterizer_discard |-> FALSE, num_ucps |-> 0, num_inputs |-> 0,
    flatshade |-> FALSE, fb_height |-> 0, num_cbufs |-> 0,
    num_sampler_views |-> 0, sampler_view_swizzles |-> "0000",
    saturate_tex_coords |-> <<0, 0, 0>> ]

NoShader == [ free |-> TRUE ]

NoState == [ live |-> FALSE ]

\* what ilo_shader_info_parse_tokens finds in the tokens of the modelled
\* programs: one sampler, not a shadow sampler, in a fragment shader and none
\* in the others, no position input, no colour interpolation
ilo_shader_info(type) ==
  [ type |-> type,
    num_samplers |-> IF type = PIPE_SHADER_FRAGMENT THEN 1 ELSE 0,
    shadow_samplers |-> FALSE,
    has_pos |-> FALSE,
    has_color_interp |-> FALSE ]

World == [ state |-> state, heap |-> heap, shc |-> shc ]

FreeAddrs(h) == {a \in Addrs : h[a] = NoShader}

\* -------------------------------------------------- the cache's two lists
list_del(c, p) ==
  [ shaders |-> RemoveFrom(c.shaders, p), changed |-> RemoveFrom(c.changed, p) ]

\* a fault: the program is linked at the tail of the changed list
ilo_shader_cache_add_tail(w, p) ==
  [ state |-> [w.state EXCEPT ![p].cache = SHC],
    heap  |-> [a \in Addrs |->
                 IF a \in Members(w.state[p].variants)
                   THEN [w.heap[a] EXCEPT !.uploaded = FALSE]
                   ELSE w.heap[a]],
    shc   |-> [w.shc EXCEPT !.changed = @ \o <<p>>] ]

ilo_shader_cache_add(w, p) ==
  [ state |-> [w.state EXCEPT ![p].cache = SHC],
    heap  |-> [a \in Addrs |->
                 IF a \in Members(w.state[p].variants)
                   THEN [w.heap[a] EXCEPT !.uploaded = FALSE]
                   ELSE w.heap[a]],
    shc   |-> [w.shc EXCEPT !.changed = <<p>> \o @] ]

\* a fault: removing a program also clears the flags of its kernels
ilo_shader_cache_remove_resets(w, p) ==
  [ state |-> [w.state EXCEPT ![p].cache = NoCache],
    heap  |-> [a \in Addrs |->
                 IF a \in Members(w.state[p].variants)
                   THEN [w.heap[a] EXCEPT !.uploaded = FALSE]
                   ELSE w.heap[a]],
    shc   |-> list_del(w.shc, p) ]

ilo_shader_cache_remove(w, p) ==
  [ state |-> [w.state EXCEPT ![p].cache = NoCache],
    heap  |-> w.heap,
    shc   |-> list_del(w.shc, p) ]

\* a fault: a program that changed is left in the list it is in
ilo_shader_cache_notify_change_stays(w, p) == w

ilo_shader_cache_notify_change(w, p) ==
  IF w.state[p].cache = SHC
    THEN [w EXCEPT !.shc = [ shaders |-> list_del(w.shc, p).shaders,
                             changed |-> <<p>> \o list_del(w.shc, p).changed ]]
    ELSE w

\* ----------------------------------------------------------- variant keys
UnknownShaderTypeInit(type) ==
  type \notin {PIPE_SHADER_VERTEX, PIPE_SHADER_GEOMETRY, PIPE_SHADER_FRAGMENT}

ilo_shader_variant_init(info, ilo) ==
  LET u == CASE info.type = PIPE_SHADER_VERTEX ->
                  [ZeroVariant EXCEPT
                     !.rasterizer_discard = ilo.rasterizer_discard,
                     !.num_ucps = util_last_bit(ilo.clip_plane_enable)]
             [] info.type = PIPE_SHADER_GEOMETRY ->
                  [ZeroVariant EXCEPT
                     !.rasterizer_discard = ilo.rasterizer_discard,
                     !.num_inputs = ilo.vs_out_count]
             [] info.type = PIPE_SHADER_FRAGMENT ->
                  [ZeroVariant EXCEPT
                     !.flatshade = (info.has_color_interp /\ ilo.flatshade),
                     !.fb_height = IF info.has_pos THEN ilo.fb_height ELSE 1,
                     !.num_cbufs = ilo.nr_cbufs]
             [] OTHER -> ZeroVariant
  IN  IF info.num_samplers = 0
        THEN u
        ELSE [u EXCEPT
                !.num_sampler_views = info.num_samplers,
                !.sampler_view_swizzles =
                   IF ilo.view /= NoView THEN ilo.view
                   ELSE IF info.shadow_samplers THEN "RRR1"
                   ELSE "RGBA",
                !.saturate_tex_coords =
                   IF ilo.sampler /= NoSampler THEN ilo.sampler ELSE <<0, 0, 0>>]

UnknownShaderTypeGuess(type) ==
  type \notin {PIPE_SHADER_VERTEX, PIPE_SHADER_GEOMETRY, PIPE_SHADER_FRAGMENT}

ilo_shader_variant_guess(info, ilo) ==
  LET u == CASE info.type = PIPE_SHADER_VERTEX -> ZeroVariant
             [] info.type = PIPE_SHADER_GEOMETRY -> ZeroVariant
             [] info.type = PIPE_SHADER_FRAGMENT ->
                  [ZeroVariant EXCEPT
                     !.flatshade = FALSE,
                     !.fb_height = IF info.has_pos THEN ilo.fb_height ELSE 1,
                     !.num_cbufs = 1]
             [] OTHER -> ZeroVariant
  IN  IF info.num_samplers = 0
        THEN u
        ELSE [u EXCEPT
                !.num_sampler_views = info.num_samplers,
                !.sampler_view_swizzles =
                   IF info.shadow_samplers THEN "RRR1" ELSE "RGBA"]

\* the byte size of the kernel the stage compiler emits for a key
KernelSize(type, variant) ==
  CASE type = PIPE_SHADER_VERTEX ->
         IF variant.rasterizer_discard
           THEN (IF variant.num_ucps = 0 THEN 2200 ELSE 3000)
           ELSE (IF variant.num_ucps = 0 THEN 1000 ELSE 1200)
    [] type = PIPE_SHADER_GEOMETRY ->
         IF variant.rasterizer_discard THEN 3000 ELSE 1200
    [] type = PIPE_SHADER_FRAGMENT ->
         IF variant.num_cbufs = 1 THEN 100 ELSE 50
    [] OTHER -> 50

\* struct ilo_shader as ilo_shader_compile_{vs,gs,fs,cs} hand it back
CompiledShader(type, variant) ==
  [ free |-> FALSE, variant |-> ZeroVariant,
    kernel_size |-> KernelSize(type, variant),
    uploaded |-> FALSE, cache_offset |-> 0, cso |-> FALSE ]

\* ------------------------------------------------- the per-program kernels
ilo_shader_destroy_kernel(w, sh) ==
  [w EXCEPT !.heap[sh] = NoShader]

\* a fault: the cache is not told of the new kernel
ilo_shader_state_add_shader_silent(w, p, sh) ==
  [w EXCEPT
     !.state[p].variants = <<sh>> \o @,
     !.state[p].num_variants = @ + 1,
     !.state[p].total_size = @ + w.heap[sh].kernel_size]

ilo_shader_state_add_shader(w, p, sh) ==
  LET w1 == [w EXCEPT
               !.state[p].variants = <<sh>> \o @,
               !.state[p].num_variants = @ + 1,
               !.state[p].total_size = @ + w.heap[sh].kernel_size]
  IN  IF w1.state[p].cache /= NoCache
        THEN ilo_shader_cache_notify_change(w1, p)
        ELSE w1

\* a fault: the size of a removed kernel stays in total_size
ilo_shader_state_remove_shader_keeps(w, p, sh) ==
  [w EXCEPT
     !.state[p].variants = RemoveFrom(@, sh),
     !.state[p].num_variants = @ - 1]

ilo_shader_state_remove_shader(w, p, sh) ==
  [w EXCEPT
     !.state[p].variants = RemoveFrom(@, sh),
     !.state[p].num_variants = @ - 1,
     !.state[p].total_size = @ - w.heap[sh].kernel_size]

\* the loop of ilo_shader_state_gc, from the tail of the list
RECURSIVE GcLoop(_, _)
GcLoop(w, p) ==
  LET vs == w.state[p].variants
  IN  IF vs = <<>>
        THEN w
        ELSE LET sh == vs[Len(vs)]
                 w1 == ilo_shader_destroy_kernel(
                         ilo_shader_state_remove_shader(w, p, sh), sh)
             IN  IF w1.state[p].total_size <= GcLimit \div 2
                   THEN w1
                   ELSE GcLoop(w1, p)

\* a fault: the collection starts at half the limit
ilo_shader_state_gc_early(w, p) ==
  IF w.state[p].total_size < GcLimit \div 2 THEN w ELSE GcLoop(w, p)

\* a fault: the collection never runs
ilo_shader_state_gc_never(w, p) == w

ilo_shader_state_gc(w, p) ==
  IF w.state[p].total_size < GcLimit THEN w ELSE GcLoop(w, p)

RECURSIVE SearchFrom(_, _, _, _)
SearchFrom(w, vs, i, variant) ==
  IF i > Len(vs) THEN NULL
  ELSE IF w.heap[vs[i]].variant = variant THEN vs[i]
  ELSE SearchFrom(w, vs, i + 1, variant)

\* a fault: the search never finds a kernel
ilo_shader_state_search_variant_blind(w, p, variant) == NULL

ilo_shader_state_search_variant(w, p, variant) ==
  SearchFrom(w, w.state[p].variants, 1, variant)

\* sh is what the stage compiler returned: NULL, or the address of the
\* struct ilo_shader it allocated
ilo_shader_state_add_variant(w, p, variant, sh) ==
  IF sh = NULL
    THEN w
    ELSE ilo_shader_state_add_shader(
           [w EXCEPT !.heap[sh] =
              [CompiledShader(w.state[p].type, variant) EXCEPT !.variant = variant]],
           p, sh)

\* a fault: a kernel that was found is made active where it stands in the list
ilo_shader_state_use_variant_nomove(w, p, variant, newsh) ==
  LET found == ilo_shader_state_search_variant(w, p, variant)
      wgc   == ilo_shader_state_gc(w, p)
      wadd  == ilo_shader_state_add_variant(wgc, p, variant, newsh)
  IN  IF found /= NULL
        THEN [ w    |-> [w EXCEPT !.state[p].shader = found],
               ret  |-> TRUE, path |-> "hit", compiled |-> FALSE, cso |-> FALSE,
               gc   |-> 0 ]
      ELSE IF newsh = NULL
        THEN [ w    |-> wgc,
               ret  |-> FALSE, path |-> "fail", compiled |-> TRUE, cso |-> FALSE,
               gc   |-> w.state[p].num_variants - wgc.state[p].num_variants ]
      ELSE [ w    |-> [wadd EXCEPT
                         !.state[p].shader = newsh,
                         !.heap[newsh].cso =
                            (w.state[p].type \in {PIPE_SHADER_VERTEX,
                               PIPE_SHADER_GEOMETRY, PIPE_SHADER_FRAGMENT})],
             ret  |-> TRUE, path |-> "miss", compiled |-> TRUE, cso |-> TRUE,
             gc   |-> w.state[p].num_variants - wgc.state[p].num_variants ]

\* the result of ilo_shader_state_use_variant: the world it leaves, its
\* return value, and which way it went
ilo_shader_state_use_variant(w, p, variant, newsh) ==
  LET found == ilo_shader_state_search_variant(w, p, variant)
      wgc   == ilo_shader_state_gc(w, p)
      wadd  == ilo_shader_state_add_variant(wgc, p, variant, newsh)
  IN  IF found /= NULL
        THEN [ w    |-> [w EXCEPT
                           !.state[p].variants = <<found>> \o RemoveFrom(@, found),
                           !.state[p].shader = found],
               ret  |-> TRUE, path |-> "hit", compiled |-> FALSE, cso |-> FALSE,
               gc   |-> 0 ]
      ELSE IF newsh = NULL
        THEN [ w    |-> wgc,
               ret  |-> FALSE, path |-> "fail", compiled |-> TRUE, cso |-> FALSE,
               gc   |-> w.state[p].num_variants - wgc.state[p].num_variants ]
      ELSE [ w    |-> [wadd EXCEPT
                         !.state[p].variants = <<newsh>> \o RemoveFrom(@, newsh),
                         !.state[p].shader = newsh,
                         !.heap[newsh].cso =
                            (w.state[p].type \in {PIPE_SHADER_VERTEX,
                               PIPE_SHADER_GEOMETRY, PIPE_SHADER_FRAGMENT})],
             ret  |-> TRUE, path |-> "miss", compiled |-> TRUE, cso |-> TRUE,
             gc   |-> w.state[p].num_variants - wgc.state[p].num_variants ]

\* The addresses the allocator may return for a new struct ilo_shader.  A
\* free address that no pointer holds is as good as any other such address,
\* so of those only the lowest is tried; a free address that a pointer still
\* holds (the shader field of a program whose kernel was freed) is told
\* apart by the program, so each of those is tried.
AllocChoices(w) ==
  LET free   == FreeAddrs(w.heap)
      held   == {a \in free : \E q \in Progs :
                    w.state[q].live /\ w.state[q].shader = a}
      unheld == free \ held
  IN  held \cup {a \in unheld : \A b \in unheld : a <= b}

\* what the stage compiler may return on a miss: NULL, or a new kernel
CompilerResults(w, p, variant) ==
  IF ilo_shader_state_search_variant(w, p, variant) /= NULL
    THEN {NULL}
    ELSE {NULL} \cup AllocChoices(ilo_shader_state_gc(w, p))

\* a fault: the dirty mask is not looked at
ilo_shader_select_kernel_slow(w, p, ilo, dirty, newsh) ==
  LET cur     == w.state[p].shader
      variant == ilo_shader_variant_init(ilo_shader_info(w.state[p].type), ilo)
      use     == ilo_shader_state_use_variant(w, p, variant, newsh)
  IN  [ w |-> use.w, ret |-> (use.w.state[p].shader /= cur),
        path |-> use.path, keyed |-> TRUE,
        compiled |-> use.compiled, cso |-> use.cso, gc |-> use.gc ]

ilo_shader_select_kernel(w, p, ilo, dirty, newsh) ==
  LET cur     == w.state[p].shader
      variant == ilo_shader_variant_init(ilo_shader_info(w.state[p].type), ilo)
      use     == ilo_shader_state_use_variant(w, p, variant, newsh)
  IN  IF w.state[p].non_orthogonal_states \cap dirty = {}
        THEN [ w |-> w, ret |-> FALSE, path |-> "fast", keyed |-> FALSE,
               compiled |-> FALSE, cso |-> FALSE, gc |-> 0 ]
        ELSE [ w |-> use.w, ret |-> (use.w.state[p].shader /= cur),
               path |-> use.path, keyed |-> TRUE,
               compiled |-> use.compiled, cso |-> use.cso, gc |-> use.gc ]

\* ilo_shader_get_kernel_offset: the outcomes of the call, failed saying that
\* the assertion "kernel && kernel->uploaded" does not hold.  The kernel of a
\* dangling shader->shader is freed memory: its fields read as anything.
ilo_shader_get_kernel_offset(w, p) ==
  LET kernel == w.state[p].shader
  IN  IF kernel = NULL
        THEN {[ failed |-> TRUE, offset |-> 0 ]}
      ELSE IF w.heap[kernel] = NoShader
        THEN {[ failed |-> f, offset |-> 0 ] : f \in BOOLEAN}
      ELSE {[ failed |-> ~w.heap[kernel].uploaded,
              offset |-> w.heap[kernel].cache_offset ]}

NonOrthogonalStates(type) ==
  CASE type = PIPE_SHADER_VERTEX ->
         {ILO_DIRTY_VERTEX_SAMPLER_VIEWS, ILO_DIRTY_RASTERIZER}
    [] type = PIPE_SHADER_GEOMETRY ->
         {ILO_DIRTY_GEOMETRY_SAMPLER_VIEWS, ILO_DIRTY_VS, ILO_DIRTY_RASTERIZER}
    [] type = PIPE_SHADER_FRAGMENT ->
         {ILO_DIRTY_FRAGMENT_SAMPLER_VIEWS, ILO_DIRTY_RASTERIZER,
          ILO_DIRTY_FRAMEBUFFER}
    [] OTHER -> {}

\* CALLOC_STRUCT(ilo_shader_state) and the fields ilo_shader_state_create sets
NewState(type) ==
  [ live |-> TRUE, type |-> type, non_orthogonal_states |-> {},
    cache |-> NoCache, variants |-> <<>>, num_variants |-> 0, total_size |-> 0,
    shader |-> NULL ]

\* ilo_shader_state_create: the world with program p in it, or with the
\* program destroyed again and NULL returned
ilo_shader_state_create(w, p, ilo, type, newsh) ==
  LET w0  == [w EXCEPT !.state[p] = NewState(type)]
      use == ilo_shader_state_use_variant(w0, p,
               ilo_shader_variant_guess(ilo_shader_info(type), ilo), newsh)
  IN  IF use.ret
        THEN [ w |-> use.w, ret |-> p ]
        ELSE [ w |-> w, ret |-> NULL ]

ilo_shader_destroy(w, p) ==
  [ state |-> [w.state EXCEPT ![p] = NoState],
    heap  |-> [a \in Addrs |->
                 IF a \in Members(w.state[p].variants) THEN NoShader ELSE w.heap[a]],
    shc   |-> w.shc ]

\* ---------------------------------------------------------- the upload pass
\* Offsets and sizes stay far below 2^31 here, so unsigned arithmetic and
\* the (int) casts of the results are plain integer arithmetic.
\* a fault: the kernel is written where the cursor stands
KernelStart_unaligned(offset) == offset

\* kernels must be aligned to 64-byte
KernelStart(offset) == align(offset, KernelAlign)

\* a fault: a kernel whose uploaded flag is set is written again
RECURSIVE UploadShaderLoop_rewrites(_, _, _, _, _, _, _)
UploadShaderLoop_rewrites(w, vs, i, offset, incremental, nw, failAt) ==
  IF i > Len(vs)
    THEN [ w |-> w, offset |-> offset, nw |-> nw, err |-> FALSE ]
  ELSE LET at == KernelStart(offset)
       IN  IF nw + 1 = failAt
             THEN [ w |-> w, offset |-> at, nw |-> nw + 1, err |-> TRUE ]
             ELSE UploadShaderLoop_rewrites(
                    [w EXCEPT !.heap[vs[i]].uploaded = TRUE,
                              !.heap[vs[i]].cache_offset = at],
                    vs, i + 1, at + w.heap[vs[i]].kernel_size,
                    incremental, nw + 1, failAt)

\* The loop of ilo_shader_cache_upload_shader over vs[i..]; nw counts the
\* intel_bo_pwrite calls issued so far in the pass, and the call numbered
\* failAt fails (0: none does).
RECURSIVE UploadShaderLoop(_, _, _, _, _, _, _)
UploadShaderLoop(w, vs, i, offset, incremental, nw, failAt) ==
  IF i > Len(vs)
    THEN [ w |-> w, offset |-> offset, nw |-> nw, err |-> FALSE ]
  ELSE IF incremental /\ w.heap[vs[i]].uploaded
    THEN UploadShaderLoop(w, vs, i + 1, offset, incremental, nw, failAt)
  ELSE LET at == KernelStart(offset)
       IN  IF nw + 1 = failAt
             THEN [ w |-> w, offset |-> at, nw |-> nw + 1, err |-> TRUE ]
             ELSE UploadShaderLoop(
                    [w EXCEPT !.heap[vs[i]].uploaded = TRUE,
                              !.heap[vs[i]].cache_offset = at],
                    vs, i + 1, at + w.heap[vs[i]].kernel_size,
                    incremental, nw + 1, failAt)

\* a fault: the size of a program is counted from its first kernel, without
\* the gap that aligning the cursor left before it
ilo_shader_cache_upload_shader_nogap(w, p, offset, incremental, nw, failAt) ==
  LET r == UploadShaderLoop(w, w.state[p].variants, 1, offset, incremental,
                            nw, failAt)
  IN  [ w |-> r.w, nw |-> r.nw,
        s |-> IF r.err THEN -1
              ELSE IF r.offset = offset THEN 0
              ELSE r.offset - KernelStart(offset) ]

ilo_shader_cache_upload_shader(w, p, offset, incremental, nw, failAt) ==
  LET r == UploadShaderLoop(w, w.state[p].variants, 1, offset, incremental,
                            nw, failAt)
  IN  [ w |-> r.w, nw |-> r.nw,
        s |-> IF r.err THEN -1 ELSE r.offset - offset ]

\* a fault: the size of a kernel is added without aligning its start
RECURSIVE SizeShaderLoop_unaligned(_, _, _, _, _)
SizeShaderLoop_unaligned(w, vs, i, offset, incremental) ==
  IF i > Len(vs) THEN offset
  ELSE IF ~incremental \/ ~w.heap[vs[i]].uploaded
    THEN SizeShaderLoop_unaligned(w, vs, i + 1,
           offset + w.heap[vs[i]].kernel_size, incremental)
  ELSE SizeShaderLoop_unaligned(w, vs, i + 1, offset, incremental)

\* the accounting of one program in ilo_shader_cache_get_upload_size
RECURSIVE SizeShaderLoop(_, _, _, _, _)
SizeShaderLoop(w, vs, i, offset, incremental) ==
  IF i > Len(vs) THEN offset
  ELSE IF ~incremental \/ ~w.heap[vs[i]].uploaded
    THEN SizeShaderLoop(w, vs, i + 1,
           align(offset, KernelAlign) + w.heap[vs[i]].kernel_size,
           incremental)
  ELSE SizeShaderLoop(w, vs, i + 1, offset, incremental)

\* a fault: the prefetch pad is added inside the loop, after each program
\* that was accounted and is followed by another
RECURSIVE SizeListLoop_pads(_, _, _, _, _)
SizeListLoop_pads(w, ps, i, offset, incremental) ==
  IF i > Len(ps) THEN offset
  ELSE LET o == SizeShaderLoop(w, w.state[ps[i]].variants, 1, offset, incremental)
       IN  SizeListLoop_pads(w, ps, i + 1,
             IF o > offset /\ i < Len(ps) THEN o + PrefetchPad ELSE o,
             incremental)

RECURSIVE SizeListLoop(_, _, _, _, _)
SizeListLoop(w, ps, i, offset, incremental) ==
  IF i > Len(ps) THEN offset
  ELSE SizeListLoop(w, ps, i + 1,
         SizeShaderLoop(w, w.state[ps[i]].variants, 1, offset, incremental),
         incremental)

\* a fault: the prefetch pad is added to an empty pass as well
ilo_shader_cache_get_upload_size_padded(w, offset, incremental) ==
  LET afterShaders == IF ~incremental
                        THEN SizeListLoop(w, w.shc.shaders, 1, offset, incremental)
                        ELSE offset
      afterChanged == SizeListLoop(w, w.shc.changed, 1, afterShaders, incremental)
  IN  afterChanged + PrefetchPad - offset

ilo_shader_cache_get_upload_size(w, offset, incremental) ==
  LET afterShaders == IF ~incremental
                        THEN SizeListLoop(w, w.shc.shaders, 1, offset, incremental)
                        ELSE offset
      afterChanged == SizeListLoop(w, w.shc.changed, 1, afterShaders, incremental)
      padded       == IF afterChanged > offset
                        THEN afterChanged + PrefetchPad
                        ELSE afterChanged
  IN  padded - offset

\* a fault: the cursor is not moved on from one resident program to the next
RECURSIVE UploadShadersLoop_rewinds(_, _, _, _, _, _, _, _)
UploadShadersLoop_rewinds(w, ps, i, offset, size, incremental, nw, failAt) ==
  IF i > Len(ps)
    THEN [ w |-> w, offset |-> offset, size |-> size, nw |-> nw, err |-> FALSE ]
    ELSE LET r == ilo_shader_cache_upload_shader(w, ps[i], offset, incremental,
                                                 nw, failAt)
         IN  IF r.s < 0
               THEN [ w |-> r.w, offset |-> offset, size |-> r.s, nw |-> r.nw,
                      err |-> TRUE ]
               ELSE UploadShadersLoop_rewinds(r.w, ps, i + 1, offset,
                                              size + r.s, incremental, r.nw, failAt)

\* the loop over shc->shaders of a pass that is not incremental
RECURSIVE UploadShadersLoop(_, _, _, _, _, _, _, _)
UploadShadersLoop(w, ps, i, offset, size, incremental, nw, failAt) ==
  IF i > Len(ps)
    THEN [ w |-> w, offset |-> offset, size |-> size, nw |-> nw, err |-> FALSE ]
    ELSE LET r == ilo_shader_cache_upload_shader(w, ps[i], offset, incremental,
                                                 nw, failAt)
         IN  IF r.s < 0
               THEN [ w |-> r.w, offset |-> offset, size |-> r.s, nw |-> r.nw,
                      err |-> TRUE ]
               ELSE UploadShadersLoop(r.w, ps, i + 1, offset + r.s,
                                      size + r.s, incremental, r.nw, failAt)

\* a fault: the program is unlinked and not linked again
MoveToShaders_dropped(c, p) == list_del(c, p)

\* a fault: an uploaded program is left in the changed list
MoveToShaders_stays(c, p) == c

\* list_del(&shader->list); list_add(&shader->list, &shc->shaders);
MoveToShaders(c, p) ==
  [ shaders |-> <<p>> \o list_del(c, p).shaders,
    changed |-> list_del(c, p).changed ]

\* a fault: the program is moved to shc->shaders before the result of its
\* upload is looked at
RECURSIVE UploadChangedLoop_moves(_, _, _, _, _, _, _, _)
UploadChangedLoop_moves(w, ps, i, offset, size, incremental, nw, failAt) ==
  IF i > Len(ps)
    THEN [ w |-> w, offset |-> offset, size |-> size, nw |-> nw, err |-> FALSE ]
    ELSE LET r == ilo_shader_cache_upload_shader(w, ps[i], offset, incremental,
                                                 nw, failAt)
             moved == [r.w EXCEPT !.shc = MoveToShaders(r.w.shc, ps[i])]
         IN  IF r.s < 0
               THEN [ w |-> moved, offset |-> offset, size |-> r.s, nw |-> r.nw,
                      err |-> TRUE ]
               ELSE UploadChangedLoop_moves(moved, ps, i + 1, offset + r.s,
                                            size + r.s, incremental, r.nw, failAt)

\* the loop over shc->changed, which moves each program it has uploaded to
\* the head of shc->shaders
RECURSIVE UploadChangedLoop(_, _, _, _, _, _, _, _)
UploadChangedLoop(w, ps, i, offset, size, incremental, nw, failAt) ==
  IF i > Len(ps)
    THEN [ w |-> w, offset |-> offset, size |-> size, nw |-> nw, err |-> FALSE ]
    ELSE LET r == ilo_shader_cache_upload_shader(w, ps[i], offset, incremental,
                                                 nw, failAt)
             moved == [r.w EXCEPT !.shc = MoveToShaders(r.w.shc, ps[i])]
         IN  IF r.s < 0
               THEN [ w |-> r.w, offset |-> offset, size |-> r.s, nw |-> r.nw,
                      err |-> TRUE ]
               ELSE UploadChangedLoop(moved, ps, i + 1, offset + r.s,
                                      size + r.s, incremental, r.nw, failAt)

\* a fault: the pass over the resident programs skips the kernels whose
\* uploaded flag is set
UploadResident_skips(w, offset, incremental, failAt) ==
  IF ~incremental
    THEN UploadShadersLoop(w, w.shc.shaders, 1, offset, 0, TRUE, 0, failAt)
    ELSE [ w |-> w, offset |-> offset, size |-> 0, nw |-> 0, err |-> FALSE ]

\* a fault: the resident programs are uploaded again by every pass
UploadResident_always(w, offset, incremental, failAt) ==
  UploadShadersLoop(w, w.shc.shaders, 1, offset, 0, FALSE, 0, failAt)

\* if (!incremental): the resident programs first
UploadResident(w, offset, incremental, failAt) ==
  IF ~incremental
    THEN UploadShadersLoop(w, w.shc.shaders, 1, offset, 0, incremental, 0, failAt)
    ELSE [ w |-> w, offset |-> offset, size |-> 0, nw |-> 0, err |-> FALSE ]

\* a fault: a null buffer does not end the call before the loops
ilo_shader_cache_upload_wet(w, bo, offset, incremental, failAt) ==
  LET res == UploadResident(w, offset, incremental, failAt)
      chg == UploadChangedLoop(res.w, res.w.shc.changed, 1, res.offset, res.size,
                               incremental, res.nw, failAt)
  IN  IF ~bo
        THEN [ w |-> chg.w,
               ret |-> ilo_shader_cache_get_upload_size(w, offset, incremental),
               writes |-> chg.nw ]
      ELSE IF res.err
        THEN [ w |-> res.w, ret |-> res.size, writes |-> res.nw ]
      ELSE [ w |-> chg.w, ret |-> chg.size, writes |-> chg.nw ]

\* bo is TRUE for a buffer and FALSE for a null one
ilo_shader_cache_upload(w, bo, offset, incremental, failAt) ==
  LET res == UploadResident(w, offset, incremental, failAt)
      chg == UploadChangedLoop(res.w, res.w.shc.changed, 1, res.offset, res.size,
                               incremental, res.nw, failAt)
  IN  IF ~bo
        THEN [ w |-> w, ret |-> ilo_shader_cache_get_upload_size(w, offset, incremental),
               writes |-> 0 ]
      ELSE IF res.err
        THEN [ w |-> res.w, ret |-> res.size, writes |-> res.nw ]
      ELSE [ w |-> chg.w, ret |-> chg.size, writes |-> chg.nw ]

\* ------------------------------------------------------------ the calls
\* the record of a call; a field a call has no use for keeps its Idle value.
\* asserted says that the call reached an assert(!"unknown shader type"),
\* which a build without NDEBUG does not get past.
Idle ==
  [ op |-> "none", p |-> NULL, changed |-> FALSE, path |-> "-",
    keyed |-> FALSE, compiled |-> FALSE, cso |-> FALSE, gc |-> 0,
    different |-> FALSE, bo |-> FALSE, incremental |-> FALSE, size |-> 0,
    writes |-> 0, again |-> FALSE, touched |-> FALSE, nullwrite |-> FALSE,
    asserted |-> FALSE ]

Init ==
  /\ state = [p \in Progs |-> NoState]
  /\ heap = [a \in Addrs |-> NoShader]
  /\ shc = [ shaders |-> <<>>, changed |-> <<>> ]
  /\ fault = "none"
  /\ ops = 0
  /\ last = Idle

\* a call is made by a process that no fault has ended, within the bound
Call ==
  /\ fault = "none"
  /\ ops < MaxOps
  /\ ops' = ops + 1

Install(w) ==
  /\ state' = w.state
  /\ heap' = w.heap
  /\ shc' = w.shc

\* ilo_shader_create_vs / _gs / _fs / _cs; calloc says whether
\* CALLOC_STRUCT(ilo_shader_state) succeeds.  A new program takes the lowest
\* number that no live program has.  When ilo_shader_state_create returns
\* NULL, the caller still writes shader->info.non_orthogonal_states: the
\* write through the null pointer either ends the process or, survives being
\* TRUE, goes unnoticed and NULL is returned.
Create(p, type, ilo, calloc, newsh, survives) ==
  /\ Call
  /\ ~state[p].live
  /\ type \in TypesOf(p)
  /\ \A q \in Progs : q < p => state[q].live
  /\ newsh \in {NULL} \cup AllocChoices(World)
  /\ calloc \/ newsh = NULL
  /\ survives => ~(calloc /\ newsh /= NULL)
  /\ LET r == ilo_shader_state_create(World, p, ilo, type, newsh)
     IN  IF calloc /\ r.ret /= NULL
           THEN /\ Install([r.w EXCEPT !.state[p].non_orthogonal_states =
                                          NonOrthogonalStates(type)])
                /\ fault' = "none"
                /\ last' = [Idle EXCEPT !.op = "create", !.p = p,
                                        !.path = "miss", !.compiled = TRUE,
                                        !.cso = TRUE,
                                        !.asserted = UnknownShaderTypeGuess(type)]
           ELSE /\ Install(World)
                /\ fault' = IF survives THEN "none" ELSE "null shader written"
                /\ last' = [Idle EXCEPT !.op = "create", !.p = p,
                                        !.path = "fail", !.compiled = calloc,
                                        !.nullwrite = TRUE,
                                        !.asserted =
                                           (calloc /\ UnknownShaderTypeGuess(type))]

Destroy(p) ==
  /\ Call
  /\ state[p].live
  /\ state[p].cache = NoCache
  /\ Install(ilo_shader_destroy(World, p))
  /\ fault' = fault
  /\ last' = [Idle EXCEPT !.op = "destroy", !.p = p]

CacheAdd(p) ==
  /\ Call
  /\ state[p].live
  /\ state[p].cache = NoCache
  /\ Install(ilo_shader_cache_add(World, p))
  /\ fault' = fault
  /\ last' = [Idle EXCEPT !.op = "cache_add", !.p = p]

CacheRemove(p) ==
  /\ Call
  /\ state[p].live
  /\ state[p].cache = SHC
  /\ Install(ilo_shader_cache_remove(World, p))
  /\ fault' = fault
  /\ last' = [Idle EXCEPT !.op = "cache_remove", !.p = p]

Select(p, ilo, dirty, newsh) ==
  /\ Call
  /\ state[p].live
  /\ IF state[p].non_orthogonal_states \cap dirty = {}
       THEN newsh = NULL
       ELSE newsh \in CompilerResults(World, p,
              ilo_shader_variant_init(ilo_shader_info(state[p].type), ilo))
  /\ LET r == ilo_shader_select_kernel(World, p, ilo, dirty, newsh)
     IN  /\ Install(r.w)
         /\ fault' = fault
         /\ last' = [Idle EXCEPT !.op = "select", !.p = p, !.changed = r.ret,
                       !.path = r.path, !.keyed = r.keyed,
                       !.compiled = r.compiled, !.cso = r.cso, !.gc = r.gc,
                       !.touched = (r.w /= World),
                       !.different = (r.w.state[p].shader /= state[p].shader
                                      \/ r.path = "miss"),
                       !.asserted =
                          (r.keyed /\ UnknownShaderTypeInit(state[p].type))]

Upload(bo, offset, incremental, failAt) ==
  /\ Call
  /\ bo \/ failAt = 0
  /\ LET r == ilo_shader_cache_upload(World, bo, offset, incremental, failAt)
     IN  /\ Install(r.w)
         /\ fault' = fault
         /\ last' = [Idle EXCEPT !.op = "upload", !.bo = bo,
                       !.incremental = incremental, !.size = r.ret,
                       !.writes = r.writes, !.touched = (r.w /= World),
                       !.again = (last.op = "upload" /\ last.bo
                                  /\ last.incremental /\ last.size >= 0)]

Next ==
  \/ \E p \in Progs, type \in ShaderTypes, ilo \in Contexts,
        calloc \in BOOLEAN, newsh \in {NULL} \cup Addrs, survives \in BOOLEAN :
       Create(p, type, ilo, calloc, newsh, survives)
  \/ \E p \in Progs : Destroy(p)
  \/ \E p \in Progs : CacheAdd(p)
  \/ \E p \in Progs : CacheRemove(p)
  \/ \E p \in Progs, ilo \in Contexts, dirty \in DirtyMasks,
        newsh \in {NULL} \cup Addrs :
       Select(p, ilo, dirty, newsh)
  \/ \E bo \in BOOLEAN, offset \in StartOffsets, incremental \in BOOLEAN,
        failAt \in FailPoints :
       Upload(bo, offset, incremental, failAt)

Spec == Init /\ [][Next]_vars

\* ================================================================ claims
LiveProgs == {p \in Progs : state[p].live}

LiveShaders == {a \in Addrs : heap[a] /= NoShader}

\* C1: every program that was added to the cache and not removed is in
\* exactly one of the lists "changed" and "shaders", once.
C1_CacheMembership ==
  \A p \in LiveProgs :
    state[p].cache = SHC =>
      Count(shc.shaders, p) + Count(shc.changed, p) = 1

\* a failed pass that moved one program and left the other behind
C1_Witness ==
  /\ last.op = "upload" /\ last.bo /\ last.size < 0
  /\ shc.shaders /= <<>> /\ shc.changed /= <<>>

\* C2: every kernel whose uploaded flag is set has a cache_offset that is a
\* multiple of 64, whatever start offsets the passes were given.
C2_Alignment ==
  \A a \in LiveShaders :
    heap[a].uploaded => heap[a].cache_offset % KernelAlign = 0

\* a kernel written by a pass whose start offset was not aligned
C2_Witness ==
  \E a \in LiveShaders :
    heap[a].uploaded /\ heap[a].cache_offset = align(100, KernelAlign)

\* C3 as stated: the size a dry run returns equals the size a successful
\* pass with a buffer returns from the same state.
C3_DryRunEqualsReal ==
  \A offset \in StartOffsets, incremental \in BOOLEAN :
    ilo_shader_cache_upload(World, FALSE, offset, incremental, 0).ret
      = ilo_shader_cache_upload(World, TRUE, offset, incremental, 0).ret

\* C3 as amended: the dry run returns what the successful pass returns plus
\* the 128-byte prefetch pad when the pass returns more than 0, and 0 when
\* the pass returns 0.
C3_DryRunIsRealPlusPad ==
  \A offset \in StartOffsets, incremental \in BOOLEAN :
    LET dry  == ilo_shader_cache_upload(World, FALSE, offset, incremental, 0).ret
        real == ilo_shader_cache_upload(World, TRUE, offset, incremental, 0).ret
    IN  /\ real >= 0
        /\ dry = IF real > 0 THEN real + PrefetchPad ELSE 0

\* a dry run was made over a program with an uploaded kernel and a new one
C3_Witness ==
  /\ last.op = "upload" /\ ~last.bo /\ last.size > PrefetchPad
  /\ \E p \in LiveProgs :
       /\ Count(shc.changed, p) = 1
       /\ \E a, b \in Members(state[p].variants) :
            heap[a].uploaded /\ ~heap[b].uploaded

\* C4: an incremental pass with a buffer that comes right after a successful
\* one issues no write, returns 0 and changes nothing.
C4_IncrementalIdempotent ==
  (last.op = "upload" /\ last.bo /\ last.incremental /\ last.again) =>
    (last.writes = 0 /\ last.size = 0 /\ ~last.touched)

\* the second of two incremental passes, the first of which wrote kernels
C4_Witness ==
  /\ last.op = "upload" /\ last.bo /\ last.incremental /\ last.again
  /\ \E p \in LiveProgs :
       /\ Count(shc.shaders, p) = 1
       /\ \A i \in 1..Len(state[p].variants) : heap[state[p].variants[i]].uploaded

\* the kernel at address a of program p is the same kernel after the step
Persists(p, a) ==
  /\ state[p].live /\ state'[p].live
  /\ a \in Members(state[p].variants)
  /\ a \in Members(state'[p].variants)
  /\ ~(last'.path = "miss" /\ last'.p = p /\ state'[p].shader = a)

\* C5 as stated: a kernel whose uploaded flag is set keeps it set for as
\* long as the kernel exists, whatever is called.
C5_UploadedIsForever ==
  [][\A p \in Progs, a \in Addrs :
       (Persists(p, a) /\ heap[a].uploaded) => heap'[a].uploaded]_vars

\* C5 as amended: a kernel whose uploaded flag is set keeps it set for as
\* long as the kernel exists, under every call but ilo_shader_cache_add of
\* its program, which clears the flag of every kernel of the program.
C5_UploadedUntilCacheAdd ==
  [][\A p \in Progs, a \in Addrs :
       (Persists(p, a) /\ heap[a].uploaded) =>
          IF last'.op = "cache_add" /\ last'.p = p
            THEN ~heap'[a].uploaded
            ELSE heap'[a].uploaded]_vars

\* a program was removed from the cache and its kernel is still uploaded
C5_Witness ==
  /\ last.op = "cache_remove"
  /\ \E a \in Members(state[last.p].variants) : heap[a].uploaded

RECURSIVE PrefixSize(_, _)
PrefixSize(vs, k) == IF k = 0 THEN 0 ELSE PrefixSize(vs, k - 1) + heap[vs[k]].kernel_size

\* the kernels of program p that the collection is to leave
Survivors(p) ==
  LET vs == state[p].variants
      n  == Len(vs)
  IN  IF state[p].total_size < GcLimit \/ n = 0
        THEN vs
        ELSE SubSeq(vs, 1,
               CHOOSE k \in 0..(n - 1) :
                 /\ PrefixSize(vs, k) <= GcLimit \div 2
                 /\ \A j \in (k + 1)..(n - 1) : PrefixSize(vs, j) > GcLimit \div 2)

C7_GcInvariant ==
  /\ \A p \in LiveProgs :
       LET g == ilo_shader_state_gc(World, p).state[p]
       IN  g.total_size <= GcLimit \/ g.variants = <<>>
  /\ (last.op = "select" /\ last.path = "fail") =>
       (state[last.p].total_size <= GcLimit \/ state[last.p].variants = <<>>)

\* a program over the limit, and a collection that ran before a failed compile
C7_Witness ==
  \/ \E p \in LiveProgs : state[p].total_size >= GcLimit
  \/ (last.op = "select" /\ last.path = "fail" /\ last.gc > 0)

\* C8: ilo_shader_select_kernel returns true exactly when the kernel that is
\* active after the call is another kernel than the one active before it.
C8_SelectReportsChange ==
  last.op = "select" => (last.changed <=> last.different)

Keys(type) ==
  {ilo_shader_variant_init(ilo_shader_info(type), ilo) : ilo \in Contexts}

\* C9: with a dirty mask that shares no bit with non_orthogonal_states,
\* ilo_shader_select_kernel returns false, computes no key and leaves the
\* programs, the kernels and the lists of the cache as they are.
C9_FastPath ==
  \A p \in LiveProgs, ilo \in Contexts, dirty \in DirtyMasks,
     newsh \in {NULL} \cup Addrs :
    state[p].non_orthogonal_states \cap dirty = {} =>
      LET r == ilo_shader_select_kernel(World, p, ilo, dirty, newsh)
      IN  ~r.ret /\ ~r.keyed /\ ~r.compiled /\ ~r.cso /\ r.w = World

\* the fast path was taken for a program that the cache holds
C9_Witness ==
  /\ last.op = "select" /\ last.path = "fast"
  /\ state[last.p].cache = SHC
  /\ state[last.p].non_orthogonal_states /= {}

\* C10: selecting the key of a kernel that is in the list of the program
\* makes that kernel the active one, calls no compiler, constructs no CSO
\* and leaves every kernel as it is.
C10_VariantReuse ==
  \A p \in LiveProgs, newsh \in {NULL} \cup Addrs :
    \A variant \in Keys(state[p].type), a \in Members(state[p].variants) :
      heap[a].variant = variant =>
        LET r == ilo_shader_state_use_variant(World, p, variant, newsh)
        IN  /\ r.ret
            /\ r.w.state[p].shader = a
            /\ r.w.state[p].variants[1] = a
            /\ ~r.compiled /\ ~r.cso
            /\ r.w.heap = heap
            /\ Members(r.w.state[p].variants) = Members(state[p].variants)

\* a selection hit an uploaded kernel that was not the active one
C10_Witness ==
  /\ last.op = "select" /\ last.path = "hit" /\ last.changed
  /\ heap[state[last.p].shader].uploaded

\* C11: for a program that the cache holds, after ilo_shader_select_kernel and
\* a successful pass of ilo_shader_cache_upload with a buffer, the active
\* kernel is a kernel of the program whose uploaded flag is set, so that the
\* assertion of ilo_shader_get_kernel_offset holds and the offset it returns
\* is the one the kernel was written at.
C11_CallOrderMeetsPrecondition ==
  (last.op = "select" /\ state[last.p].cache = SHC) =>
    \A offset \in StartOffsets, incremental \in BOOLEAN :
      LET r      == ilo_shader_cache_upload(World, TRUE, offset, incremental, 0)
          kernel == r.w.state[last.p].shader
      IN  r.ret >= 0 =>
            /\ kernel \in Members(r.w.state[last.p].variants)
            /\ \A out \in ilo_shader_get_kernel_offset(r.w, last.p) :
                 ~out.failed /\ out.offset = r.w.heap[kernel].cache_offset

\* the kernels of the programs ps of world w, program by program
RECURSIVE KernelsOf(_, _)
KernelsOf(w, ps) ==
  IF ps = <<>> THEN <<>>
  ELSE w.state[Head(ps)].variants \o KernelsOf(w, Tail(ps))

\* the kernels a pass over world w has to write, in the order of the lists
PassOrder(w, incremental) ==
  SelectSeq(KernelsOf(w, IF incremental THEN w.shc.changed
                                        ELSE w.shc.shaders \o w.shc.changed),
            LAMBDA a : ~incremental \/ ~w.heap[a].uploaded)

\* the program that holds kernel a
Owner(a) == CHOOSE p \in LiveProgs : a \in Members(state[p].variants)

\* what C12 says of every pass in which the write numbered failAt fails: the
\* pass returns a negative value after that write, the kernels written
\* before it are marked and stay so, and nothing else is written or marked
FailedPassStops(r, order, offset, failAt) ==
  /\ r.ret < 0
  /\ r.writes = failAt
  /\ r.w.state = state
  /\ \A i \in 1..(failAt - 1) :
       /\ r.w.heap[order[i]].uploaded
       /\ r.w.heap[order[i]].cache_offset >= offset
       /\ [r.w.heap[order[i]] EXCEPT !.uploaded = FALSE, !.cache_offset = 0]
            = [heap[order[i]] EXCEPT !.uploaded = FALSE, !.cache_offset = 0]
  /\ \A a \in Addrs \ {order[i] : i \in 1..(failAt - 1)} : r.w.heap[a] = heap[a]

\* C12 as stated: when a write of a pass fails, the pass stops at once and
\* returns a negative value, the kernels written before keep their flag and
\* offset, the failing kernel is left with uploaded == false and its program
\* is left in the changed list.
C12_FailureLeavesKernelNotUploaded ==
  \A offset \in StartOffsets, incremental \in BOOLEAN, failAt \in FailPoints \ {0} :
    LET r     == ilo_shader_cache_upload(World, TRUE, offset, incremental, failAt)
        order == PassOrder(World, incremental)
    IN  failAt <= Len(order) =>
          /\ FailedPassStops(r, order, offset, failAt)
          /\ ~r.w.heap[order[failAt]].uploaded
          /\ Count(r.w.shc.changed, Owner(order[failAt])) = 1

\* C12 as amended: the failing kernel is left with the flag and the offset it
\* had, which is uploaded == false in an incremental pass, and its program is
\* left in the list it was in, which is the changed list in an incremental
\* pass.
C12_FailureLeavesKernelAsItWas ==
  \A offset \in StartOffsets, incremental \in BOOLEAN, failAt \in FailPoints \ {0} :
    LET r     == ilo_shader_cache_upload(World, TRUE, offset, incremental, failAt)
        order == PassOrder(World, incremental)
    IN  IF failAt <= Len(order)
          THEN /\ FailedPassStops(r, order, offset, failAt)
               /\ r.w.heap[order[failAt]] = heap[order[failAt]]
               /\ Count(r.w.shc.changed, Owner(order[failAt]))
                    = Count(shc.changed, Owner(order[failAt]))
               /\ Count(r.w.shc.shaders, Owner(order[failAt]))
                    = Count(shc.shaders, Owner(order[failAt]))
               /\ incremental =>
                    /\ ~r.w.heap[order[failAt]].uploaded
                    /\ Count(r.w.shc.changed, Owner(order[failAt])) = 1
          ELSE r.ret >= 0

\* the second write of a pass failed: the program is still in the changed
\* list, its first kernel marked and its second not
C12_Witness ==
  /\ last.op = "upload" /\ last.bo /\ last.size < 0 /\ last.writes = 2
  /\ \E p \in LiveProgs :
       /\ Count(shc.changed, p) = 1
       /\ Len(state[p].variants) >= 2
       /\ heap[state[p].variants[1]].uploaded
       /\ ~heap[state[p].variants[2]].uploaded

\* C13: when the compiler returns no kernel for a key that no kernel of the
\* program has, ilo_shader_state_use_variant returns false and leaves the
\* list of the program, its order, num_variants, total_size, the active
\* kernel and the lists of the cache as they were, whatever total_size is.
C13_FailedSelectionCommitsNothing ==
  \A p \in LiveProgs :
    \A variant \in Keys(state[p].type) :
      ilo_shader_state_search_variant(World, p, variant) = NULL =>
        LET r == ilo_shader_state_use_variant(World, p, variant, NULL)
        IN  /\ ~r.ret
            /\ r.w.state[p] = state[p]
            /\ r.w.shc = shc
            /\ \A a \in Members(state[p].variants) : r.w.heap[a] = heap[a]

\* C14: when CALLOC_STRUCT or the compile of the guessed key fails, each of
\* ilo_shader_create_vs / _gs / _fs / _cs returns a null program to its
\* caller and neither reads nor writes a field of the failed program.
C14_CreationFailureIsPropagated ==
  (last.op = "create" /\ last.path = "fail") =>
    (fault = "none" /\ ~last.nullwrite)

\* the kernels of the programs of the changed list whose flag is not set
NotUploaded ==
  {a \in Members(KernelsOf(World, shc.changed)) : ~heap[a].uploaded}

\* the scenario of C15: program p is resident with one 100-byte kernel that
\* was uploaded at offset 0, program q is changed with one 50-byte kernel
C15_Scenario(p, q) ==
  /\ shc.shaders = <<p>> /\ shc.changed = <<q>>
  /\ Len(state[p].variants) = 1 /\ Len(state[q].variants) = 1
  /\ heap[state[p].variants[1]].kernel_size = 100
  /\ heap[state[p].variants[1]].uploaded
  /\ heap[state[p].variants[1]].cache_offset = 0
  /\ heap[state[q].variants[1]].kernel_size = 50
  /\ ~heap[state[q].variants[1]].uploaded

\* C15: an incremental pass with a buffer issues no write for a kernel whose
\* uploaded flag is set, leaves the cache_offset of such a kernel as it is and
\* does not visit the resident programs; in the scenario, with start offset
\* 64, it puts the new kernel at 64, returns 50 and leaves the first at 0.
C15_IncrementalLeavesUploaded ==
  /\ \A offset \in StartOffsets \cup {64}, failAt \in FailPoints :
       LET r == ilo_shader_cache_upload(World, TRUE, offset, TRUE, failAt)
       IN  /\ \A a \in LiveShaders : heap[a].uploaded => r.w.heap[a] = heap[a]
           /\ r.writes <= Cardinality(NotUploaded)
           /\ (r.ret >= 0) => (r.writes = Cardinality(NotUploaded))
           /\ \A p \in Members(shc.shaders) :
                \A a \in Members(state[p].variants) : r.w.heap[a] = heap[a]
           /\ SubSeq(r.w.shc.shaders,
                     Len(r.w.shc.shaders) - Len(shc.shaders) + 1,
                     Len(r.w.shc.shaders)) = shc.shaders
  /\ \A p, q \in LiveProgs :
       C15_Scenario(p, q) =>
         LET r == ilo_shader_cache_upload(World, TRUE, 64, TRUE, 0)
         IN  /\ r.ret = 50 /\ r.writes = 1
             /\ r.w.heap[state[q].variants[1]].uploaded
             /\ r.w.heap[state[q].variants[1]].cache_offset = 64
             /\ r.w.heap[state[p].variants[1]] = heap[state[p].variants[1]]

\* an incremental pass wrote the one new kernel of a program and left the
\* kernel of the program that was uploaded before where it was
C15_Witness ==
  /\ last.op = "upload" /\ last.bo /\ last.incremental /\ last.writes = 1
  /\ \E p \in LiveProgs :
       /\ Len(state[p].variants) = 2
       /\ heap[state[p].variants[1]].uploaded
       /\ heap[state[p].variants[2]].uploaded
       /\ heap[state[p].variants[1]].cache_offset
            > heap[state[p].variants[2]].cache_offset

\* the scenario of C15 is a state the program reaches
C15_ScenarioReached == \E p, q \in LiveProgs : C15_Scenario(p, q)

\* C16: ilo_shader_cache_upload with a null buffer issues no write and leaves
\* the flag and the offset of every kernel, the list of every program and
\* the two lists of the cache as they are, whatever incremental is.
C16_DryRunChangesNothing ==
  /\ \A offset \in StartOffsets, incremental \in BOOLEAN :
       LET r == ilo_shader_cache_upload(World, FALSE, offset, incremental, 0)
       IN  r.writes = 0 /\ r.w.heap = heap /\ r.w.state = state /\ r.w.shc = shc
  /\ (last.op = "upload" /\ ~last.bo) => (last.writes = 0 /\ ~last.touched)

\* a dry run that is not incremental was made over a changed program none
\* of whose kernels is uploaded
C16_Witness ==
  /\ last.op = "upload" /\ ~last.bo /\ ~last.incremental /\ last.size > 0
  /\ \E p \in LiveProgs :
       /\ Count(shc.changed, p) = 1
       /\ state[p].variants /= <<>>
       /\ \A a \in Members(state[p].variants) : ~heap[a].uploaded

\* where the cursor stands after the first k kernels of order were accounted
RECURSIVE CursorAfter(_, _, _)
CursorAfter(order, k, offset) ==
  IF k = 0 THEN offset
  ELSE align(CursorAfter(order, k - 1, offset), KernelAlign)
         + heap[order[k]].kernel_size

\* C17: ilo_shader_cache_upload with a null buffer returns 0 when no kernel is
\* accounted, and otherwise the way from the start offset to the final cursor
\* plus the 128-byte pad, which is added once.
C17_DryRunPad ==
  \A offset \in StartOffsets, incremental \in BOOLEAN :
    LET order == PassOrder(World, incremental)
        dry   == ilo_shader_cache_upload(World, FALSE, offset, incremental, 0).ret
    IN  dry = IF order = <<>>
                THEN 0
                ELSE CursorAfter(order, Len(order), offset) - offset + PrefetchPad

\* a dry run accounted the kernels of two programs
C17_Witness ==
  /\ last.op = "upload" /\ ~last.bo /\ last.size > 0
  /\ \E p, q \in Members(shc.shaders \o shc.changed) :
       /\ p /= q
       /\ \E a \in Members(state[p].variants), b \in Members(state[q].variants) :
            /\ a \in Members(PassOrder(World, last.incremental))
            /\ b \in Members(PassOrder(World, last.incremental))

\* C18: after a selection that compiled a new kernel for a program that the
\* cache holds, the flag of the new kernel is not set and the program is in
\* the changed list and not in the resident one, so that the next successful
\* pass with a buffer, incremental or not, writes the kernel.
C18_MissMarksChanged ==
  (last.op = "select" /\ last.path = "miss" /\ state[last.p].cache = SHC) =>
    LET sh == state[last.p].shader
    IN  /\ ~heap[sh].uploaded
        /\ Count(shc.changed, last.p) = 1
        /\ Count(shc.shaders, last.p) = 0
        /\ \A offset \in StartOffsets, incremental \in BOOLEAN :
             LET r == ilo_shader_cache_upload(World, TRUE, offset, incremental, 0)
             IN  /\ r.ret >= 0
                 /\ r.writes >= 1
                 /\ r.w.heap[sh].uploaded
                 /\ r.w.heap[sh].cache_offset >= offset
                 /\ r.w.heap[sh].cache_offset + heap[sh].kernel_size
                      <= offset + r.ret

\* a selection compiled a new kernel for a program that was resident: the
\* kernel it had is uploaded and the program is in the changed list
C18_Witness ==
  /\ last.op = "select" /\ last.path = "miss"
  /\ shc.changed = <<last.p>>
  /\ Len(state[last.p].variants) >= 2
  /\ heap[state[last.p].variants[2]].uploaded

\* the kernels of old that are in the set keep, in the order of old
Kept(old, keep) == SelectSeq(old, LAMBDA a : a \in keep)

\* C19: a selection that hits or misses leaves the kernel it selected at the
\* head of the list of the program and active, and the other kernels that
\* are still there in the order they had; no other call reorders the list
\* (it can only lose kernels at its tail), so the list is in the order of the
\* last selections, the most recent first.
C19_RecencyOrder ==
  [][\A p \in Progs :
       (state[p].live /\ state'[p].live /\ ~(last'.op = "create" /\ last'.p = p)) =>
         LET old == state[p].variants
             new == state'[p].variants
         IN  IF last'.op = "select" /\ last'.p = p /\ last'.path \in {"hit", "miss"}
               THEN /\ new /= <<>>
                    /\ new[1] = state'[p].shader
                    /\ Tail(new) = Kept(old, Members(Tail(new)))
                    /\ \A a \in Members(Tail(new)) : heap'[a].variant = heap[a].variant
                    /\ last'.path = "hit" => Members(new) = Members(old)
               ELSE new = SubSeq(old, 1, Len(new))
    ]_vars

\* a selection hit a kernel that was not at the head of a list of three
C19_Witness ==
  /\ last.op = "select" /\ last.path = "hit" /\ last.changed
  /\ Len(state[last.p].variants) = 3

\* the world after the step
WorldNext == [ state |-> state', heap |-> heap', shc |-> shc' ]

\* the step added its program to the cache or marked it changed
MarkedChanged ==
  \/ last'.op = "cache_add"
  \/ (last'.op = "select" /\ last'.path = "miss" /\ state'[last'.p].cache = SHC)

\* the kernels of program p that a pass over world w writes
WrittenOf(w, p, incremental) ==
  {a \in Members(w.state[p].variants) : ~incremental \/ ~w.heap[a].uploaded}

\* in a successful pass over world w with a buffer, every kernel of program
\* p that is written gets a lower offset than every kernel of q that is
WrittenBefore(w, p, q) ==
  \A offset \in StartOffsets, incremental \in BOOLEAN :
    LET r == ilo_shader_cache_upload(w, TRUE, offset, incremental, 0)
    IN  \A a \in WrittenOf(w, p, incremental), b \in WrittenOf(w, q, incremental) :
          r.w.heap[a].cache_offset < r.w.heap[b].cache_offset

\* a pass that is not incremental writes the resident programs of world w
\* before the changed ones
ResidentFirst(w) ==
  \A p \in Members(w.shc.shaders), q \in Members(w.shc.changed) :
    LET r == ilo_shader_cache_upload(w, TRUE, 0, FALSE, 0)
    IN  \A a \in Members(w.state[p].variants), b \in Members(w.state[q].variants) :
          r.w.heap[a].cache_offset < r.w.heap[b].cache_offset

\* the programs that are in the changed list before and after the step and
\* that the step did not mark
Stayed ==
  (Members(shc.changed) \cap Members(shc'.changed))
    \ (IF MarkedChanged THEN {last'.p} ELSE {})

\* C20 as stated: a pass with a buffer processes the changed programs in the
\* order they were marked, so that a program marked earlier gets lower
\* offsets than one marked later, and a pass that is not incremental
\* processes the resident programs before the changed ones.
C20_UploadInInsertionOrder ==
  [][/\ ResidentFirst(WorldNext)
     /\ MarkedChanged =>
          \A q \in Stayed : WrittenBefore(WorldNext, q, last'.p)
    ]_vars

\* C20 as amended: list_add links at the head, so a pass processes the
\* changed programs from the one marked last to the one marked first: a
\* program marked later gets lower offsets than one marked earlier.  No call
\* changes the order of the programs that stay in the changed list, and a
\* pass that is not incremental processes the resident programs first.
C20_UploadInReverseInsertionOrder ==
  [][/\ ResidentFirst(WorldNext)
     /\ Kept(shc'.changed, Stayed) = Kept(shc.changed, Stayed)
     /\ \A i, j \in 1..Len(shc'.changed) :
          i < j => WrittenBefore(WorldNext, shc'.changed[i], shc'.changed[j])
     /\ MarkedChanged =>
          /\ shc'.changed[1] = last'.p
          /\ \A q \in Stayed : WrittenBefore(WorldNext, last'.p, q)
    ]_vars

\* a pass wrote the kernels of two programs: the program at the head of the
\* resident list was moved last and has the higher offset
C20_Witness ==
  /\ last.op = "upload" /\ last.bo /\ last.size > 0 /\ last.writes = 2
  /\ Len(shc.shaders) = 2
  /\ state[shc.shaders[1]].variants /= <<>>
  /\ state[shc.shaders[2]].variants /= <<>>
  /\ heap[state[shc.shaders[1]].variants[1]].cache_offset
       > heap[state[shc.shaders[2]].variants[1]].cache_offset

\* the kernels of the resident programs
ResidentKernels == KernelsOf(World, shc.shaders)

\* the kernels a pass that is not incremental would write if it skipped the
\* resident kernels whose flag is set
ResyncOrder ==
  SelectSeq(ResidentKernels, LAMBDA a : ~heap[a].uploaded)
    \o KernelsOf(World, shc.changed)

\* C21 as stated: with incremental=false the pass writes, and the dry run
\* accounts, of the kernels of the resident programs those whose uploaded
\* flag is not set; a resident kernel whose flag is set is not written again
\* and keeps its cache_offset.
C21_ResyncWritesNotUploadedOnly ==
  \A offset \in StartOffsets :
    LET r   == ilo_shader_cache_upload(World, TRUE, offset, FALSE, 0)
        dry == ilo_shader_cache_upload(World, FALSE, offset, FALSE, 0).ret
    IN  /\ r.writes = Len(ResyncOrder)
        /\ \A k \in 1..Len(ResidentKernels) :
             heap[ResidentKernels[k]].uploaded =>
               r.w.heap[ResidentKernels[k]] = heap[ResidentKernels[k]]
        /\ dry = IF ResyncOrder = <<>>
                   THEN 0
                   ELSE CursorAfter(ResyncOrder, Len(ResyncOrder), offset)
                          - offset + PrefetchPad

\* C21 as amended: with incremental=false the pass writes, and the dry run
\* accounts, every kernel of every resident program whatever its flag; a
\* resident kernel whose flag is set is written again and gets the offset
\* this pass gives it.
C21_FullPassWritesEveryResident ==
  \A offset \in StartOffsets :
    LET r     == ilo_shader_cache_upload(World, TRUE, offset, FALSE, 0)
        dry   == ilo_shader_cache_upload(World, FALSE, offset, FALSE, 0).ret
        order == ResidentKernels \o KernelsOf(World, shc.changed)
    IN  /\ r.writes = Len(order)
        /\ \A k \in 1..Len(ResidentKernels) :
             /\ r.w.heap[order[k]].uploaded
             /\ r.w.heap[order[k]].cache_offset
                  = align(CursorAfter(order, k - 1, offset), KernelAlign)
        /\ dry = IF order = <<>>
                   THEN 0
                   ELSE CursorAfter(order, Len(order), offset) - offset + PrefetchPad

\* a pass that is not incremental came right after a successful incremental
\* one and wrote kernels: they are resident kernels whose flag was set
C21_Witness ==
  /\ last.op = "upload" /\ last.bo /\ ~last.incremental /\ last.again
  /\ last.size > 0 /\ last.writes >= 1
  /\ shc.shaders /= <<>>

\* the smallest multiple of 64 that is not below the cursor
StartByRule(cursor) ==
  CHOOSE m \in cursor..(cursor + KernelAlign - 1) : m % KernelAlign = 0

\* the cursor after the first k kernels of order, by the rule of C22
RECURSIVE CursorByRule(_, _, _)
CursorByRule(order, k, offset) ==
  IF k = 0 THEN offset
  ELSE StartByRule(CursorByRule(order, k - 1, offset)) + heap[order[k]].kernel_size

\* C22: with and without a buffer the cursor starts at the start offset, a
\* kernel that is not skipped starts at the smallest multiple of 64 that is
\* not below the cursor and moves the cursor to its end, the cursor goes on
\* from program to program, and a successful pass with a buffer returns the
\* way from the start offset to the final cursor.
C22_CursorArithmetic ==
  \A offset \in StartOffsets, incremental \in BOOLEAN :
    LET order == PassOrder(World, incremental)
        final == CursorByRule(order, Len(order), offset)
        r     == ilo_shader_cache_upload(World, TRUE, offset, incremental, 0)
        dry   == ilo_shader_cache_upload(World, FALSE, offset, incremental, 0).ret
    IN  /\ r.ret = final - offset
        /\ \A k \in 1..Len(order) :
             r.w.heap[order[k]].cache_offset
               = StartByRule(CursorByRule(order, k - 1, offset))
        /\ dry = IF final > offset THEN final + PrefetchPad - offset ELSE 0

\* a pass that started at 100 wrote two kernels of two programs and returned
\* more than their sizes
C22_Witness ==
  /\ last.op = "upload" /\ last.bo /\ last.writes = 2
  /\ Len(shc.shaders) = 2
  /\ Len(state[shc.shaders[1]].variants) = 1
  /\ Len(state[shc.shaders[2]].variants) = 1
  /\ heap[state[shc.shaders[2]].variants[1]].cache_offset = 128
  /\ last.size > heap[state[shc.shaders[1]].variants[1]].kernel_size
                   + heap[state[shc.shaders[2]].variants[1]].kernel_size

\* C23: after a successful pass with a buffer, incremental or not, the
\* changed list is empty and every program that was in it is in the resident
\* list; whatever the pass returns, a program has been moved to the resident
\* list only if every kernel of it that the pass had to write was written.
C23_ChangedBecomeResident ==
  /\ \A offset \in StartOffsets, incremental \in BOOLEAN, failAt \in FailPoints :
       LET r == ilo_shader_cache_upload(World, TRUE, offset, incremental, failAt)
       IN  /\ r.ret >= 0 =>
                /\ r.w.shc.changed = <<>>
                /\ \A p \in Members(shc.changed) : Count(r.w.shc.shaders, p) = 1
                /\ Members(r.w.shc.shaders)
                     = Members(shc.shaders) \cup Members(shc.changed)
           /\ \A p \in Members(shc.changed) :
                Count(r.w.shc.shaders, p) = 1 =>
                  /\ Count(r.w.shc.changed, p) = 0
                  /\ \A a \in Members(state[p].variants) : r.w.heap[a].uploaded
  /\ (last.op = "upload" /\ last.bo /\ last.size >= 0) => shc.changed = <<>>

\* an incremental pass wrote the kernels of the changed programs and left
\* the changed list empty
C23_Witness ==
  /\ last.op = "upload" /\ last.bo /\ last.incremental /\ last.size > 0
  /\ last.writes >= 2
  /\ shc.changed = <<>> /\ shc.shaders /= <<>>

\* C24: the active kernel of a program (state->shader) is unset or a kernel
\* of the list of the program; it is never a kernel that the collection has
\* removed and freed.
C24_ActiveNeverDangling ==
  \A p \in LiveProgs :
    \/ state[p].shader = NULL
    \/ /\ state[p].shader \in Members(state[p].variants)
       /\ heap[state[p].shader] /= NoShader

\* C25: every kernel of every program of the resident list has its uploaded
\* flag set; a kernel whose flag is not set belongs to a program that is in
\* the changed list or in no cache.
C25_ResidentImpliesUploaded ==
  /\ \A p \in Members(shc.shaders) :
       \A a \in Members(state[p].variants) : heap[a].uploaded
  /\ \A p \in LiveProgs :
       \A a \in Members(state[p].variants) :
         ~heap[a].uploaded =>
           (Count(shc.changed, p) = 1 \/ state[p].cache = NoCache)

\* a resident program with an uploaded kernel next to a changed program
\* with a kernel that is not uploaded
C25_Witness ==
  /\ \E p \in Members(shc.shaders) :
       \E a \in Members(state[p].variants) : heap[a].uploaded
  /\ \E q \in Members(shc.changed) :
       \E a \in Members(state[q].variants) : ~heap[a].uploaded

\* the contexts of C26: those of the calls, with every binding of slot 0
KeyContexts ==
  { [c EXCEPT !.view = v, !.sampler = sm] :
      c \in Contexts,
      v \in {NoView, "RGBA", "BGRA"},
      sm \in {NoSampler, <<0, 0, 0>>, <<1, 0, 0>>} }

\* the dirty flags a caller reports for a stage when the context went from
\* ilo1 to ilo2: one flag for each state category that differs
ChangedStates(type, ilo1, ilo2) ==
  (IF \/ ilo1.rasterizer_discard /= ilo2.rasterizer_discard
      \/ ilo1.clip_plane_enable /= ilo2.clip_plane_enable
      \/ ilo1.flatshade /= ilo2.flatshade
     THEN {ILO_DIRTY_RASTERIZER} ELSE {})
  \cup (IF ilo1.fb_height /= ilo2.fb_height \/ ilo1.nr_cbufs /= ilo2.nr_cbufs
          THEN {ILO_DIRTY_FRAMEBUFFER} ELSE {})
  \cup (IF ilo1.vs_out_count /= ilo2.vs_out_count THEN {ILO_DIRTY_VS} ELSE {})
  \cup (IF ilo1.view /= ilo2.view \/ ilo1.view_count /= ilo2.view_count
          THEN {CASE type = PIPE_SHADER_VERTEX -> ILO_DIRTY_VERTEX_SAMPLER_VIEWS
                  [] type = PIPE_SHADER_GEOMETRY -> ILO_DIRTY_GEOMETRY_SAMPLER_VIEWS
                  [] OTHER -> ILO_DIRTY_FRAGMENT_SAMPLER_VIEWS}
          ELSE {})
  \cup (IF ilo1.sampler /= ilo2.sampler
          THEN {CASE type = PIPE_SHADER_VERTEX -> ILO_DIRTY_VERTEX_SAMPLERS
                  [] type = PIPE_SHADER_GEOMETRY -> ILO_DIRTY_GEOMETRY_SAMPLERS
                  [] OTHER -> ILO_DIRTY_FRAGMENT_SAMPLERS}
          ELSE {})

\* C26: when the active kernel of a program was selected for context ilo1,
\* the context went to ilo2, the caller reports every state category that
\* changed and ilo_shader_select_kernel takes the fast path, then the key of
\* the active kernel is the key ilo_shader_variant_init computes from ilo2.
C26_FastPathSound ==
  \A p \in LiveProgs :
    \A ilo1, ilo2 \in KeyContexts :
      LET type   == state[p].type
          info   == ilo_shader_info(type)
          kernel == state[p].shader
          dirty  == ChangedStates(type, ilo1, ilo2)
      IN  ( /\ ~UnknownShaderTypeInit(type)
            /\ kernel \in Members(state[p].variants)
            /\ heap[kernel].variant = ilo_shader_variant_init(info, ilo1)
            /\ ilo_shader_select_kernel(World, p, ilo2, dirty, NULL).path = "fast" )
          => heap[kernel].variant = ilo_shader_variant_init(info, ilo2)

\* C27: no program made by ilo_shader_create_vs / _gs / _fs / _cs, at its
\* creation or in a later ilo_shader_select_kernel with any dirty mask,
\* reaches the assert(!"unknown shader type") of ilo_shader_variant_guess or
\* of ilo_shader_variant_init.
C27_UnknownTypeUnreachable == ~last.asserted

\* C28: total_size of a live program is the sum of kernel_size over the
\* kernels of its list, and num_variants is the length of the list.
C28_SizeAccounting ==
  \A p \in LiveProgs :
    /\ state[p].num_variants = Len(state[p].variants)
    /\ state[p].total_size = PrefixSize(state[p].variants, Len(state[p].variants))
    /\ Cardinality(Members(state[p].variants)) = Len(state[p].variants)

\* a selection missed, the collection freed a kernel and left another, and
\* the new kernel was added
C28_Witness ==
  /\ last.op = "select" /\ last.path = "miss" /\ last.gc >= 1
  /\ Len(state[last.p].variants) >= 2

\* the byte range of kernel a in heap h ends before that of kernel b starts
RangeBefore(h, a, b) ==
  h[a].cache_offset + h[a].kernel_size <= h[b].cache_offset

\* C29: the byte ranges [cache_offset, cache_offset + kernel_size) of the
\* kernels written by one pass with a buffer do not overlap, ascend in the
\* order of writing and start at or after the start offset of the pass, also
\* when a write fails; after a successful pass that is not incremental the
\* ranges of all kernels of all programs of the cache do not overlap.
C29_NoOverlap ==
  \A offset \in StartOffsets, incremental \in BOOLEAN, failAt \in FailPoints :
    LET r       == ilo_shader_cache_upload(World, TRUE, offset, incremental, failAt)
        order   == PassOrder(World, incremental)
        written == IF r.ret >= 0 THEN Len(order) ELSE r.writes - 1
        all     == Members(KernelsOf(r.w, r.w.shc.shaders \o r.w.shc.changed))
    IN  /\ \A k \in 1..written :
             /\ r.w.heap[order[k]].uploaded
             /\ r.w.heap[order[k]].cache_offset >= offset
        /\ \A j, k \in 1..written :
             j < k => /\ RangeBefore(r.w.heap, order[j], order[k])
                      /\ r.w.heap[order[j]].cache_offset
                           < r.w.heap[order[k]].cache_offset
        /\ (r.ret >= 0 /\ ~incremental) =>
             \A a, b \in all :
               a /= b => \/ RangeBefore(r.w.heap, a, b)
                         \/ RangeBefore(r.w.heap, b, a)

\* a pass that is not incremental wrote the kernels of a resident and of a
\* changed program
C29_Witness ==
  /\ last.op = "upload" /\ last.bo /\ ~last.incremental /\ last.size > 0
  /\ last.writes >= 2 /\ ~last.again
  /\ Len(shc.shaders) = 2

\* C30: when the size S that the pass without a buffer returns is computed
\* and the pass with a buffer, made from the same state with the same start
\* offset and the same mode, succeeds, every kernel it wrote ends at least
\* 128 bytes before offset + S and starts at or after offset.
C30_DryRunSizeSuffices ==
  \A offset \in StartOffsets, incremental \in BOOLEAN :
    LET S     == ilo_shader_cache_upload(World, FALSE, offset, incremental, 0).ret
        r     == ilo_shader_cache_upload(World, TRUE, offset, incremental, 0)
        order == PassOrder(World, incremental)
    IN  r.ret >= 0 =>
          \A k \in 1..Len(order) :
            /\ r.w.heap[order[k]].uploaded
            /\ offset <= r.w.heap[order[k]].cache_offset
            /\ r.w.heap[order[k]].cache_offset + r.w.heap[order[k]].kernel_size
                 + PrefetchPad <= offset + S

\* a state from which a pass that starts at an offset that is not aligned
\* writes two kernels of one program
C30_Witness ==
  /\ \E p \in LiveProgs : /\ state[p].cache /= NoCache
                          /\ Len(state[p].variants) >= 2
  /\ Len(PassOrder(World, TRUE)) >= 2
  /\ ilo_shader_cache_upload(World, TRUE, 100, TRUE, 0).ret > 0

====
